---------------------------- MODULE Spec2Model ----------------------------
(***************************************************************************)
(* Model of the TransIns pre-/postprocessing server                        *)
(* (PrePostProcessingServer.py, tokenizeExtended.py).                      *)
(*                                                                         *)
(* A Python string is a sequence of code points; a code point is a         *)
(* one-element TLA+ string ("a", ",", " ") or a name for a code point      *)
(* outside ASCII ("uE101", "u2581", "u00B7").  A token list is a sequence  *)
(* of such strings.                                                        *)
(*                                                                         *)
(* The module holds four state machines over disjoint variables:           *)
(*   SpecDetok  concurrent calls of MosesDetokenizerExtended.detokenize on  *)
(*              the shared Catalan detokenizer                             *)
(*   SpecInit   init() over a configuration, then the two endpoints'       *)
(*              direction lookup                                           *)
(*   SpecTok    MosesTokenizerExtended.tokenize on bounded inputs          *)
(*   SpecPipe   preprocess_sentence / postprocess_sentence                 *)
(***************************************************************************)
EXTENDS Integers, Sequences, FiniteSets, TLC

\* ------------------------------------------------------------------ bounds
\* Concurrent request threads on the shared detokenizer.
NumThreads == 2
\* Calls each thread makes.
MaxCalls == 2

\* ------------------------------------------------------------------- state
\* The shared Catalan detokenizer and the request threads that call it:
\* lang is moses_detokenizer['ca'].lang; langWriter is the thread whose
\* assignment lang holds (0: the constructor); calls[t] is thread t's frame
\* of MosesDetokenizerExtended.detokenize.
VARIABLES lang, langWriter, calls

\* The module-level globals of PrePostProcessingServer.py and init()'s loop:
\* configuration is config.ini, idx the section the loop is at, nextId and
\* allocLog the identities and the log of the objects constructed, bound the
\* language resources each direction found when it was initialized, lastReq
\* the outcome of the last request's direction lookup.
VARIABLES configuration, initPc, idx, supported_trans_dirs,
          moses_punct_normalizer, moses_tokenizer, moses_detokenizer,
          moses_truecaser, bpe_encoder, sentence_piece,
          nextId, allocLog, bound, lastReq

\* One call of MosesTokenizerExtended.tokenize.
VARIABLES tokLang, tokText, tokPc, tokResult

\* One sentence through preprocess_sentence and postprocess_sentence.
VARIABLES pDir, pSentence, pPc, pPre, pPost

detokVars == <<lang, langWriter, calls>>

registry == <<moses_punct_normalizer, moses_tokenizer, moses_detokenizer,
              moses_truecaser, bpe_encoder, sentence_piece>>

initVars == <<configuration, initPc, idx, supported_trans_dirs, registry,
              nextId, allocLog, bound, lastReq>>

tokVars == <<tokLang, tokText, tokPc, tokResult>>

pipeVars == <<pDir, pSentence, pPc, pPre, pPost>>

vars == <<detokVars, initVars, tokVars, pipeVars>>

\* ------------------------------------------------------ string primitives
SP == " "

Lowercase == {"a", "l"}
Uppercase == {"A", "B"}
Digits == {"1"}
\* sacremoses IsAlpha / IsAlnum restricted to the code points of the model
IsAlpha(c) == c \in Lowercase \cup Uppercase
IsAlnum(c) == IsAlpha(c) \/ c \in Digits

RECURSIVE Concat(_)
\* ''.join(parts)
Concat(parts) ==
  IF parts = <<>> THEN <<>> ELSE Head(parts) \o Concat(Tail(parts))

RECURSIVE JoinSp(_)
\* ' '.join(tokens)
JoinSp(toks) ==
  IF toks = <<>> THEN <<>>
  ELSE IF Len(toks) = 1 THEN toks[1]
  ELSE toks[1] \o <<SP>> \o JoinSp(Tail(toks))

RECURSIVE SplitSpAcc(_, _)
SplitSpAcc(s, cur) ==
  IF s = <<>> THEN <<cur>>
  ELSE IF Head(s) = SP THEN <<cur>> \o SplitSpAcc(Tail(s), <<>>)
  ELSE SplitSpAcc(Tail(s), Append(cur, Head(s)))

\* str.split(" "): empty strings between adjacent separators are kept
SplitSp(s) == SplitSpAcc(s, <<>>)

\* str.split(): runs of whitespace separate, no empty strings
SplitWs(s) == SelectSeq(SplitSp(s), LAMBDA w : w # <<>>)

RECURSIVE LStrip(_)
LStrip(s) == IF s # <<>> /\ Head(s) = SP THEN LStrip(Tail(s)) ELSE s

RECURSIVE RStrip(_)
RStrip(s) ==
  IF s # <<>> /\ s[Len(s)] = SP THEN RStrip(SubSeq(s, 1, Len(s) - 1)) ELSE s

\* str.strip()
Strip(s) == RStrip(LStrip(s))

RECURSIVE OneSpace(_)
\* re.sub(r" +", " ", s)  (also r"\s+" and r" {2,}" on the model's code points)
OneSpace(s) ==
  IF s = <<>> THEN <<>>
  ELSE IF Head(s) = SP /\ Len(s) > 1 /\ s[2] = SP THEN OneSpace(Tail(s))
  ELSE <<Head(s)>> \o OneSpace(Tail(s))


\* ------------------------------------------- sacremoses MosesDetokenizer
\* The detokenizer's rules are those of sacremoses' MosesDetokenizer.tokenize
\* (the method detokenize() of the extension calls), restricted to the code
\* points of the model: no CJK, no currency sign, no token made of quotes.
LeftShiftPunct == {",", ".", "?", "!", ":", ";", "%", "}", "]", ")"}
FrenchSpacedPunct == {"?", "!", ":", ";", "%"}

AllIn(tok, S) == tok # <<>> /\ \A k \in 1..Len(tok) : tok[k] \in S

\* re.search(r"[IsAlpha][']$", token)
EndsAlphaApostrophe(tok) ==
  Len(tok) >= 2 /\ tok[Len(tok)] = "'" /\ IsAlpha(tok[Len(tok) - 1])

\* re.search(r"^['][IsAlpha]", token)
StartsApostropheAlpha(tok) == Len(tok) >= 2 /\ tok[1] = "'" /\ IsAlpha(tok[2])

StartsAlpha(tok) == tok # <<>> /\ IsAlpha(tok[1])

\* One iteration of the detokenizer's loop over the tokens: token i (1-based)
\* of toks under the language flag lng, from the text built so far.
DetokToken(lng, toks, i, st) ==
  LET tok == toks[i] IN
  IF AllIn(tok, LeftShiftPunct)
    THEN [text |-> st.text
                   \o (IF lng = "fr" /\ Len(tok) = 1 /\ tok[1] \in FrenchSpacedPunct
                         THEN <<SP>> ELSE <<>>)
                   \o tok,
          prepend_space |-> <<SP>>]
  ELSE IF lng = "en" /\ i > 1 /\ StartsApostropheAlpha(tok)
    THEN [text |-> st.text \o tok, prepend_space |-> <<SP>>]
  ELSE IF lng \in {"fr", "it", "ga"} /\ i <= Len(toks) - 1
          /\ EndsAlphaApostrophe(tok) /\ StartsAlpha(toks[i + 1])
    THEN [text |-> st.text \o st.prepend_space \o tok, prepend_space |-> <<>>]
  ELSE [text |-> st.text \o st.prepend_space \o tok, prepend_space |-> <<SP>>]

\* text = " {} ".format(" ".join(tokens)); tokens = text.split()
DetokBegin(tokens) == SplitWs(<<SP>> \o JoinSp(tokens) \o <<SP>>)

DetokStart == [text |-> <<>>, prepend_space |-> <<SP>>]

\* re.sub(ONE_SPACE, " ", detokenized_text).strip()
DetokEnd(text) == Strip(OneSpace(text))

RECURSIVE DetokLoop(_, _, _, _)
DetokLoop(lng, toks, i, st) ==
  IF i > Len(toks) THEN st
  ELSE DetokLoop(lng, toks, i + 1, DetokToken(lng, toks, i, st))

\* MosesDetokenizer.tokenize(tokens) with the language flag lng throughout
MosesDetok(lng, tokens) ==
  DetokEnd(DetokLoop(lng, DetokBegin(tokens), 1, DetokStart).text)

\* A list element that is not a str: " ".join(tokens) raises TypeError
NotAStr == <<"#None">>
JoinRaises(tokens) == \E k \in 1..Len(tokens) : tokens[k] = NotAStr

\* ------------------------- MosesDetokenizerExtended.detokenize, threaded
\* The server (waitress, or Flask's threaded development server) runs request
\* handlers in threads that share moses_detokenizer['ca'].
Threads == 1..NumThreads

tL == <<"l", "'">>
tA == <<"a">>
tQ == <<"?">>

\* Token lists the requests carry (sentence.split() of model output), and one
\* list with an element that is not a str.
DetokInputs ==
  { <<tL, tA, tQ>>, <<tA, tQ>>, <<tL, tA>>, <<tA, NotAStr>> }

IdleFrame(n) ==
  [pc |-> "idle", input |-> <<>>, tokens |-> <<>>, toks |-> <<>>, i |-> 0,
   st |-> DetokStart, detokenized_text |-> <<>>, result |-> <<>>,
   foreign |-> FALSE, branch |-> "none", ncalls |-> n]

\* The flag holds an intermediate value another call wrote.
ForeignFlag(t) == lang \in {"fr", "es"} /\ langWriter # t

\* postprocess_sentence calls detokenizer.detokenize(sentence_as_tokens, ...)
Call(t) ==
  /\ calls[t].pc = "idle"
  /\ calls[t].ncalls < MaxCalls
  /\ \E inp \in DetokInputs :
       calls' = [calls EXCEPT ![t] =
                   [IdleFrame(calls[t].ncalls + 1) EXCEPT
                      !.pc = "L145", !.input = inp, !.tokens = inp]]
  /\ UNCHANGED <<lang, langWriter, initVars, tokVars, pipeVars>>

\* if self.lang == 'ca':
CheckLang(t) ==
  /\ calls[t].pc = "L145"
  /\ calls' = [calls EXCEPT
                 ![t].pc = IF lang = "ca" THEN "L148" ELSE "L156",
                 ![t].branch = IF lang = "ca" THEN "ca" ELSE "else",
                 ![t].foreign = ForeignFlag(t)]
  /\ UNCHANGED <<lang, langWriter, initVars, tokVars, pipeVars>>

\* self.lang = 'fr' / 'es' / 'ca'
SetLang(t, at, value, next) ==
  /\ calls[t].pc = at
  /\ lang' = value
  /\ langWriter' = t
  /\ calls' = [calls EXCEPT ![t].pc = next]
  /\ UNCHANGED <<initVars, tokVars, pipeVars>>

SetFr(t) == SetLang(t, "L148", "fr", "L149")
SetEs(t) == SetLang(t, "L151", "es", "L152")
SetCa(t) == SetLang(t, "L153", "ca", "L154")

PassLines == {"L149", "L152", "L156"}

\* self.tokenize(tokens, return_str, unescape): entry.  An exception leaves
\* detokenize at once: nothing in it catches.
PassBegin(t) ==
  /\ calls[t].pc \in PassLines
  /\ calls[t].i = 0
  /\ calls' = [calls EXCEPT ![t] =
       IF JoinRaises(calls[t].tokens)
         THEN [calls[t] EXCEPT !.pc = "raised"]
         ELSE [calls[t] EXCEPT !.toks = DetokBegin(calls[t].tokens),
                               !.i = 1, !.st = DetokStart]]
  /\ UNCHANGED <<lang, langWriter, initVars, tokVars, pipeVars>>

\* one iteration of the loop: it reads self.lang as it is now
PassToken(t) ==
  /\ calls[t].pc \in PassLines
  /\ calls[t].i >= 1
  /\ calls[t].i <= Len(calls[t].toks)
  /\ calls' = [calls EXCEPT
       ![t].st = DetokToken(lang, calls[t].toks, calls[t].i, calls[t].st),
       ![t].i = calls[t].i + 1,
       ![t].foreign = calls[t].foreign \/ ForeignFlag(t)]
  /\ UNCHANGED <<lang, langWriter, initVars, tokVars, pipeVars>>

AfterPass(line) ==
  CASE line = "L149" -> "L150"
    [] line = "L152" -> "L153"
    [] line = "L156" -> "ret"

\* the loop is over: detokenized_text = ...
PassEnd(t) ==
  /\ calls[t].pc \in PassLines
  /\ calls[t].i > Len(calls[t].toks)
  /\ calls' = [calls EXCEPT
       ![t].detokenized_text = DetokEnd(calls[t].st.text),
       ![t].i = 0,
       ![t].pc = AfterPass(calls[t].pc)]
  /\ UNCHANGED <<lang, langWriter, initVars, tokVars, pipeVars>>

\* tokens = detokenized_text.split(" ")
Resplit(t) ==
  /\ calls[t].pc = "L150"
  /\ calls' = [calls EXCEPT ![t].tokens = SplitSp(calls[t].detokenized_text),
                            ![t].pc = "L151"]
  /\ UNCHANGED <<lang, langWriter, initVars, tokVars, pipeVars>>

\* return detokenized_text
Return(t) ==
  /\ calls[t].pc \in {"L154", "ret"}
  /\ calls' = [calls EXCEPT ![t].result = calls[t].detokenized_text,
                            ![t].pc = "done"]
  /\ UNCHANGED <<lang, langWriter, initVars, tokVars, pipeVars>>

\* the request is answered (200, or 500 after the exception); the thread
\* takes the next one
NextRequest(t) ==
  /\ calls[t].pc \in {"done", "raised"}
  /\ calls[t].ncalls < MaxCalls
  /\ calls' = [calls EXCEPT ![t] = IdleFrame(calls[t].ncalls)]
  /\ UNCHANGED <<lang, langWriter, initVars, tokVars, pipeVars>>

NextDetok ==
  \E t \in Threads :
    \/ Call(t)
    \/ CheckLang(t)
    \/ SetFr(t)
    \/ SetEs(t)
    \/ SetCa(t)
    \/ PassBegin(t)
    \/ PassToken(t)
    \/ PassEnd(t)
    \/ Resplit(t)
    \/ Return(t)
    \/ NextRequest(t)

\* The result of a Catalan call run alone: French detokenization, split on
\* single spaces, Spanish detokenization.
CatalanAlone(tokens) == MosesDetok("es", SplitSp(MosesDetok("fr", tokens)))

\* ----------------------------------------------------- init(), the registry
\* Sections of config.ini the model draws from.
MaxSections == 2

ToLower ==
  ("A" :> "a") @@ ("B" :> "b") @@ ("D" :> "d") @@ ("E" :> "e")
  @@ ("F" :> "f") @@ ("N" :> "n") @@ ("R" :> "r")

LowerChar(c) == IF c \in DOMAIN ToLower THEN ToLower[c] ELSE c

\* str.lower()
Lower(s) == [k \in 1..Len(s) |-> LowerChar(s[k])]

RECURSIVE SplitOnAcc(_, _, _)
SplitOnAcc(s, ch, cur) ==
  IF s = <<>> THEN <<cur>>
  ELSE IF Head(s) = ch THEN <<cur>> \o SplitOnAcc(Tail(s), ch, <<>>)
  ELSE SplitOnAcc(Tail(s), ch, Append(cur, Head(s)))

\* str.split('-')
SplitHyphen(s) == SplitOnAcc(s, "-", <<>>)

en_de == <<"e", "n", "-", "d", "e">>
en_fr == <<"e", "n", "-", "f", "r">>
EN_DE == <<"E", "N", "-", "D", "E">>
En_Fr == <<"E", "n", "-", "F", "r">>
de_en == <<"d", "e", "-", "e", "n">>

SectionNames == {en_de, en_fr, EN_DE}
RequestDirs == {en_de, EN_DE, En_Fr, de_en}

NoPath == <<>>
BlankPath == <<SP>>
SomePath == <<"f">>

\* config.ini sections: the resource paths of one translation direction
Sections ==
  [name : SectionNames,
   truecaser_model : {NoPath, SomePath},
   bpe_codes : {NoPath, BlankPath, SomePath},
   sentencepiece_model : {NoPath, SomePath}]

\* configparser refuses a file that names a section twice
DistinctNames(cfg) ==
  \A i, j \in 1..Len(cfg) : i # j => cfg[i].name # cfg[j].name

RECURSIVE SeqsUpTo(_, _)
SeqsUpTo(S, n) ==
  IF n = 0 THEN {<<>>}
  ELSE LET shorter == SeqsUpTo(S, n - 1) IN
       shorter \cup {Append(q, x) : q \in {r \in shorter : Len(r) = n - 1}, x \in S}

Configs == {cfg \in SeqsUpTo(Sections, MaxSections) : DistinctNames(cfg)}

EmptyDict == [k \in {} |-> 0]

\* dict[key] = value
Put(dict, key, value) == (key :> value) @@ dict

NoRequest == [op |-> "none", dir |-> <<>>, status |-> 0, used |-> <<>>,
              subtok_type |-> "None"]

\* The membership test left out: every direction constructs its languages anew.
LangMissing_Always(l, normalizers) == TRUE

\* if lang not in moses_punct_normalizer:
LangMissing(l, normalizers) == l \notin DOMAIN normalizers

RECURSIVE LangLoop(_, _)
\* for lang in trans_dir.split('-'): the three per-language constructors.
\* st: the three dicts, the next object identity and the constructor log.
LangLoop(langs, st) ==
  IF langs = <<>> THEN st
  ELSE LET l == Head(langs) IN
       IF LangMissing(l, st.norm)
         THEN LangLoop(Tail(langs),
                [norm |-> Put(st.norm, l, st.next),
                 tok |-> Put(st.tok, l, st.next + 1),
                 detok |-> Put(st.detok, l, st.next + 2),
                 next |-> st.next + 3,
                 log |-> st.log \o << [cls |-> "MosesPunctNormalizer", key |-> l, id |-> st.next],
                                      [cls |-> "MosesTokenizerExtended", key |-> l, id |-> st.next + 1],
                                      [cls |-> "MosesDetokenizerExtended", key |-> l, id |-> st.next + 2] >>])
         ELSE LangLoop(Tail(langs), st)

SectionOf(cfg, name) == CHOOSE k \in 1..Len(cfg) : cfg[k].name = name
HasSection(cfg, name) == \E k \in 1..Len(cfg) : cfg[k].name = name

\* len(path.strip()) > 0
Configured(path) == Len(Strip(path)) > 0

\* One iteration of "for trans_dir in config.sections()".  config[trans_dir]
\* is looked up by the lower-cased name and section names are case sensitive:
\* without such a section it raises KeyError and init, and the process, end.
InitSection ==
  /\ initPc = "init"
  /\ idx <= Len(configuration)
  /\ LET trans_dir == Lower(configuration[idx].name)
         langs == LangLoop(SplitHyphen(trans_dir),
                    [norm |-> moses_punct_normalizer, tok |-> moses_tokenizer,
                     detok |-> moses_detokenizer, next |-> nextId, log |-> allocLog])
         found == HasSection(configuration, trans_dir)
         sec == configuration[SectionOf(configuration, trans_dir)]
         tc == found /\ Configured(sec.truecaser_model)
         bpe == found /\ Configured(sec.bpe_codes)
         spm == found /\ Configured(sec.sentencepiece_model)
         idTc == langs.next
         idBpe == idTc + (IF tc THEN 1 ELSE 0)
         idSp == idBpe + (IF bpe THEN 1 ELSE 0)
     IN
     /\ supported_trans_dirs' = Append(supported_trans_dirs, trans_dir)
     /\ moses_punct_normalizer' = langs.norm
     /\ moses_tokenizer' = langs.tok
     /\ moses_detokenizer' = langs.detok
     /\ bound' = Append(bound,
                   [dir |-> trans_dir,
                    ids |-> [l \in {x \in DOMAIN langs.norm :
                                      \E k \in 1..Len(SplitHyphen(trans_dir)) :
                                        SplitHyphen(trans_dir)[k] = x}
                               |-> <<langs.norm[l], langs.tok[l], langs.detok[l]>>]])
     /\ moses_truecaser' = IF tc THEN Put(moses_truecaser, trans_dir, idTc)
                           ELSE moses_truecaser
     /\ bpe_encoder' = IF bpe THEN Put(bpe_encoder, trans_dir, idBpe) ELSE bpe_encoder
     /\ sentence_piece' = IF spm THEN Put(sentence_piece, trans_dir, idSp)
                          ELSE sentence_piece
     /\ nextId' = idSp + (IF spm THEN 1 ELSE 0)
     /\ allocLog' = langs.log
          \o (IF tc THEN <<[cls |-> "MosesTruecaser", key |-> trans_dir, id |-> idTc]>> ELSE <<>>)
          \o (IF bpe THEN <<[cls |-> "BPE", key |-> trans_dir, id |-> idBpe]>> ELSE <<>>)
          \o (IF spm THEN <<[cls |-> "SentencePieceProcessor", key |-> trans_dir, id |-> idSp]>>
              ELSE <<>>)
     /\ initPc' = IF found THEN "init" ELSE "crashed"
     /\ idx' = idx + 1
  /\ UNCHANGED <<configuration, lastReq, detokVars, tokVars, pipeVars>>

\* the loop is over: main() starts the server
InitDone ==
  /\ initPc = "init"
  /\ idx > Len(configuration)
  /\ initPc' = "serving"
  /\ UNCHANGED <<configuration, idx, supported_trans_dirs, registry, nextId,
                 allocLog, bound, lastReq, detokVars, tokVars, pipeVars>>

InList(x, list) == \E k \in 1..Len(list) : list[k] = x

\* trans_dir = request.args.get('trans_dir', type=str).lower()
PreprocessKey(r) == Lower(r)
\* trans_dir = request.args.get('trans_dir', type=str)
PostprocessKey(r) == r

SubtokType(trans_dir) ==
  IF trans_dir \in DOMAIN bpe_encoder THEN "BPE"
  ELSE IF trans_dir \in DOMAIN sentence_piece THEN "SENTENCE_PIECE"
  ELSE "None"

\* the head of both endpoints: abort(400) for an unsupported direction,
\* otherwise the subtokenization type of the direction
Lookup(op, r, trans_dir) ==
  IF InList(trans_dir, supported_trans_dirs)
    THEN [op |-> op, dir |-> r, status |-> 200, used |-> trans_dir,
          subtok_type |-> SubtokType(trans_dir)]
    ELSE [op |-> op, dir |-> r, status |-> 400, used |-> <<>>,
          subtok_type |-> "None"]

Preprocess ==
  /\ initPc = "serving"
  /\ \E r \in RequestDirs : lastReq' = Lookup("preprocess", r, PreprocessKey(r))
  /\ UNCHANGED <<configuration, initPc, idx, supported_trans_dirs, registry,
                 nextId, allocLog, bound, detokVars, tokVars, pipeVars>>

Postprocess ==
  /\ initPc = "serving"
  /\ \E r \in RequestDirs : lastReq' = Lookup("postprocess", r, PostprocessKey(r))
  /\ UNCHANGED <<configuration, initPc, idx, supported_trans_dirs, registry,
                 nextId, allocLog, bound, detokVars, tokVars, pipeVars>>

NextRegistry == InitSection \/ InitDone \/ Preprocess \/ Postprocess

\* ------------------------------------- MosesTokenizerExtended.tokenize
\* Longest input text of the tokenizer machine.
MaxTextLen == 4

MIDDLE_DOT == "u00B7"

\* The three tag markers of the upstream markup, and a tag's second code point.
TAG_OPEN == "uE101"
TAG_CLOSE == "uE102"
TAG_ISOLATED == "uE103"
TAG_INDEX == "uE110"

\* [a-z]
AsciiLower == {"a", "l"}

\* The class of PAD_NOT_ISALNUM: not alphanumeric, not whitespace and none of
\* full stop, apostrophe, grave accent, comma, hyphen
PadClass(c) == ~IsAlnum(c) /\ c \notin {SP, ".", "'", ",", "-"}
\* The class of CA_MIDDLE_DOT: the same, and not the middle dot
CaPadClass(c) == PadClass(c) /\ c # MIDDLE_DOT

\* re.sub(*PAD_NOT_ISALNUM, text): r" \1 " for every code point of the class
PadNotIsAlnum(text) ==
  Concat([k \in 1..Len(text) |->
            IF PadClass(text[k]) THEN <<SP, text[k], SP>> ELSE <<text[k]>>])

\* re.sub(*CA_MIDDLE_DOT, text)
PadCaMiddleDot(text) ==
  Concat([k \in 1..Len(text) |->
            IF CaPadClass(text[k]) THEN <<SP, text[k], SP>> ELSE <<text[k]>>])

RECURSIVE MiddleDotNoLowerFollow(_)
\* re.sub(r"(<dot>)([^a-z])", r"\1 <dot> \2", text): matches left to right, a match
\* consumes the dot and the code point after it
MiddleDotNoLowerFollow(text) ==
  IF text = <<>> THEN <<>>
  ELSE IF Head(text) = MIDDLE_DOT /\ Len(text) >= 2 /\ text[2] \notin AsciiLower
    THEN <<MIDDLE_DOT, SP, MIDDLE_DOT, SP, text[2]>>
         \o MiddleDotNoLowerFollow(SubSeq(text, 3, Len(text)))
  ELSE <<Head(text)>> \o MiddleDotNoLowerFollow(Tail(text))

RECURSIVE CommaSeparate1(_)
\* re.sub(r"([^IsN])[,]", r"\1 , ", text)
CommaSeparate1(text) ==
  IF text = <<>> THEN <<>>
  ELSE IF Head(text) \notin Digits /\ Len(text) >= 2 /\ text[2] = ","
    THEN <<Head(text), SP, ",", SP>> \o CommaSeparate1(SubSeq(text, 3, Len(text)))
  ELSE <<Head(text)>> \o CommaSeparate1(Tail(text))

RECURSIVE CommaSeparate2(_)
\* re.sub(r"[,]([^IsN])", r" , \1", text)
CommaSeparate2(text) ==
  IF text = <<>> THEN <<>>
  ELSE IF Head(text) = "," /\ Len(text) >= 2 /\ text[2] \notin Digits
    THEN <<SP, ",", SP, text[2]>> \o CommaSeparate2(SubSeq(text, 3, Len(text)))
  ELSE <<Head(text)>> \o CommaSeparate2(Tail(text))

\* re.sub(r"([IsN])[,]$", r"\1 , ", text)
CommaSeparate3(text) ==
  IF Len(text) >= 2 /\ text[Len(text)] = "," /\ text[Len(text) - 1] \in Digits
    THEN SubSeq(text, 1, Len(text) - 1) \o <<SP, ",", SP>>
    ELSE text

\* The language-dependent separation of special characters (lines 69-81)
SeparateSpecial(lng, text) ==
  IF lng = "ca"
    THEN MiddleDotNoLowerFollow(PadCaMiddleDot(text))
    ELSE PadNotIsAlnum(text)

\* tokenize(text): the rules that match a code point of the model.  Left out,
\* as no text of the model holds what they match: control characters, '-',
\* '.', apostrophes, nonbreaking prefixes and the XML symbols.
MosesTokenize(lng, text) ==
  LET deduped == Strip(OneSpace(text))
      separated == SeparateSpecial(lng, deduped)
      commas == CommaSeparate3(CommaSeparate2(CommaSeparate1(separated)))
  IN SplitWs(Strip(OneSpace(commas)))

TokAlphabet == {"a", "B", MIDDLE_DOT, "!", SP}

\* moses_tokenizer[lang].tokenize(text)
Tokenize ==
  /\ tokPc = "call"
  /\ tokResult' = MosesTokenize(tokLang, tokText)
  /\ tokPc' = "done"
  /\ UNCHANGED <<tokLang, tokText, detokVars, initVars, pipeVars>>

NextTok == Tokenize

\* ------------------------------------------------ the external stages
\* Longest sentence of the pipeline machine, in code points.
MaxSentenceLen == 4

\* MosesPunctNormalizer.normalize(text): of its substitutions only r" +" to
\* " " matches a text of the model; the result is stripped.
\* replace_unicode_punct changes none of the model's code points.
Normalize(text) == Strip(OneSpace(text))

UpperChar(c) ==
  IF \E u \in DOMAIN ToLower : ToLower[u] = c
    THEN CHOOSE u \in DOMAIN ToLower : ToLower[u] = c
    ELSE c

Capitalize(tok) ==
  IF tok = <<>> THEN tok ELSE <<UpperChar(tok[1])>> \o Tail(tok)

\* MosesTruecaser.truecase(text): a list of tokens; the word that starts the
\* sentence takes the casing the model learned (lower case), the rest keep theirs
Truecase(text) ==
  LET toks == SplitWs(text) IN
  [k \in 1..Len(toks) |-> IF k = 1 THEN Lower(toks[k]) ELSE toks[k]]

\* MosesDetruecaser.detruecase(text): a list of tokens; the word that starts
\* the sentence is capitalized
Detruecase(text) ==
  LET toks == SplitWs(text) IN
  [k \in 1..Len(toks) |-> IF k = 1 THEN Capitalize(toks[k]) ELSE toks[k]]

BPE_SEPARATOR == <<"@", "@">>

\* BPE.process_line(line) followed by .split(): each word in its subword units,
\* all but the last with the separator.  The merge table decides the units:
\* "whole" merges every word back into one unit, "chars" has no merge.
BpeWord(word, segmentation) ==
  IF segmentation = "whole" THEN <<word>>
  ELSE [k \in 1..Len(word) |->
          IF k < Len(word) THEN <<word[k]>> \o BPE_SEPARATOR ELSE <<word[k]>>]

BpeTokens(line, segmentation) ==
  LET words == SplitWs(line) IN
  Concat([k \in 1..Len(words) |-> BpeWord(words[k], segmentation)])

WORD_BOUNDARY == "u2581"

\* SentencePieceProcessor.encode(text, out_type=str): whitespace is
\* normalized, each word starts with the boundary marker; the model's
\* vocabulary decides the pieces: "whole" has every marked word as one piece,
\* "chars" has single code points (the marker then stands alone).
SpWord(word, segmentation) ==
  IF segmentation = "whole" THEN << <<WORD_BOUNDARY>> \o word >>
  ELSE << <<WORD_BOUNDARY>> >> \o [k \in 1..Len(word) |-> <<word[k]>>]

SpEncode(text, segmentation) ==
  LET words == SplitWs(text) IN
  Concat([k \in 1..Len(words) |-> SpWord(words[k], segmentation)])

\* ---------------------------- preprocess_sentence, postprocess_sentence
TagMarkers == {TAG_OPEN, TAG_CLOSE, TAG_ISOLATED}

\* re.search(U+E101, t) or re.search(U+E102, t) or re.search(U+E103, t)
HasTag(token) == \E k \in 1..Len(token) : token[k] \in TagMarkers

\* The guard of the removal loop: if len(sentence_as_tokens) > 1
LoopGuard(toks) == Len(toks) > 1

RECURSIVE RemoveLeadingTags(_, _, _)
\* The "while True" loop that moves leading tags to removed_tokens, run tokens
\* at a time (sentence_as_tokens[0:run]).
RemoveLeadingTags(removed, toks, run) ==
  IF LoopGuard(toks) /\ HasTag(toks[1])
    THEN RemoveLeadingTags(removed \o SubSeq(toks, 1, run),
                           SubSeq(toks, run + 1, Len(toks)), run)
    ELSE [removed_tokens |-> removed, sentence_as_tokens |-> toks]

\* The removed tokens re-added behind the stage's tokens.
Readd_Behind(removed_tokens, sentence_as_tokens) ==
  sentence_as_tokens \o removed_tokens

\* sentence_as_tokens = removed_tokens + sentence_as_tokens
Readd(removed_tokens, sentence_as_tokens) == removed_tokens \o sentence_as_tokens

\* truecaser.truecase(text) / moses_detruecaser.detruecase(text)
CallStage(stage, text) ==
  IF stage = "truecase" THEN Truecase(text) ELSE Detruecase(text)

\* The casing step of both functions: remove the leading tags, run the stage
\* on the joined rest, re-add.  stage_arg is what the stage was called with.
CasingStep(toks, run, stage) ==
  LET split == RemoveLeadingTags(<<>>, toks, run)
      arg == JoinSp(split.sentence_as_tokens)
  IN [before |-> toks,
      removed_tokens |-> split.removed_tokens,
      remaining |-> split.sentence_as_tokens,
      stage_arg |-> arg,
      tokens |-> Readd(split.removed_tokens, CallStage(stage, arg))]

NoCasing == [before |-> <<>>, removed_tokens |-> <<>>, remaining |-> <<>>,
             stage_arg |-> <<>>, tokens |-> <<>>]

RECURSIVE MergeTags(_)
\* The merge loop after byte pair encoding: a token with a tag marker is
\* appended as it is, every other token with a space after it
MergeTags(toks) ==
  IF toks = <<>> THEN <<>>
  ELSE (IF HasTag(Head(toks)) THEN Head(toks) ELSE Head(toks) \o <<SP>>)
       \o MergeTags(Tail(toks))

RECURSIVE PadTags(_)
\* re.sub: a marker and the code point after it, as r' \1 '; matches left to
\* right, a match consumes both code points
PadTags(text) ==
  IF text = <<>> THEN <<>>
  ELSE IF Head(text) \in TagMarkers /\ Len(text) >= 2
    THEN <<SP, text[1], text[2], SP>> \o PadTags(SubSeq(text, 3, Len(text)))
  ELSE <<Head(text)>> \o PadTags(Tail(text))

\* The string line 165 hands to encoder.process_line: the variable sentence,
\* which only the truecasing block re-assigns from the tokens
EncoderInput(normalized, truecased, casing) ==
  IF truecased THEN JoinSp(casing.tokens) ELSE normalized

\* preprocess_sentence(sentence, trans_dir, subtok_type) for a direction d
\* (its source language, whether it has a truecaser, its subtokenization and
\* the segmentation of the loaded model); the result with the locals.
preprocess_sentence(sentence, d) ==
  LET normalized == Normalize(sentence)
      tokenized == IF d.subtok_type = "BPE"
                     THEN MosesTokenize(d.source_lang, normalized)
                     ELSE SplitWs(normalized)
      casing == IF d.truecaser THEN CasingStep(tokenized, 2, "truecase") ELSE NoCasing
      sentence_as_tokens == IF d.truecaser THEN casing.tokens ELSE tokenized
      encoder_arg == EncoderInput(normalized, d.truecaser, casing)
      bpe_tokens == BpeTokens(encoder_arg, d.segmentation)
      result ==
        IF d.subtok_type = "BPE"
          THEN Strip(MergeTags(bpe_tokens))
        ELSE IF d.subtok_type = "SENTENCE_PIECE"
          THEN JoinSp(SelectSeq(SpEncode(PadTags(encoder_arg), d.segmentation),
                                LAMBDA tok : tok # <<WORD_BOUNDARY>>))
        ELSE encoder_arg
  IN [ran |-> TRUE, tokenized |-> tokenized, casing |-> casing,
      sentence_as_tokens |-> sentence_as_tokens,
      encoder_arg |-> IF d.subtok_type = "BPE" THEN encoder_arg ELSE <<>>,
      bpe_tokens |-> IF d.subtok_type = "BPE" THEN bpe_tokens ELSE <<>>,
      sentence |-> result]

RECURSIVE LangCode(_)
\* A language code of the configuration as the key of a per-language
\* dictionary.
LangCode(l) == IF l = <<>> THEN "" ELSE Head(l) \o LangCode(Tail(l))

\* The source language in place of the target language.
TargetLang_Source(trans_dir) == LangCode(SplitHyphen(trans_dir)[1])

\* target_lang = trans_dir.split('-')[1]
TargetLang(trans_dir) == LangCode(SplitHyphen(trans_dir)[2])

\* if subtok_type == ST_BPE: the guard of detokenization
UsesDetokenizer(subtok_type) == subtok_type = "BPE"

\* postprocess_sentence(sentence, trans_dir, subtok_type); detok_lang is the
\* key of moses_detokenizer whose detokenizer was called, "" for none.
postprocess_sentence(sentence, d) ==
  LET target_lang == TargetLang(d.trans_dir)
      split == SplitWs(sentence)
      casing == IF d.truecaser THEN CasingStep(split, 1, "detruecase") ELSE NoCasing
      sentence_as_tokens == IF d.truecaser THEN casing.tokens ELSE split
      cased == IF d.truecaser THEN JoinSp(sentence_as_tokens) ELSE sentence
      detokenized == UsesDetokenizer(d.subtok_type)
  IN [ran |-> TRUE, input |-> sentence, casing |-> casing,
      sentence_as_tokens |-> sentence_as_tokens,
      detokenized |-> detokenized,
      detok_lang |-> IF detokenized THEN target_lang ELSE "",
      sentence |-> IF detokenized
                     THEN MosesDetok(target_lang, sentence_as_tokens)
                     ELSE cased]

PipeAlphabet == {"a", "A", ",", SP, TAG_OPEN, TAG_INDEX}

\* The directions: init() binds a truecaser or none, and a BPE encoder, a
\* SentencePiece model or neither.
\* The sections of config.ini with the languages they are configured for.
ConfiguredDirs ==
  { [trans_dir |-> en_de, source_lang |-> "en", target_lang |-> "de"],
    [trans_dir |-> en_fr, source_lang |-> "en", target_lang |-> "fr"] }

Directions ==
  { [trans_dir |-> c.trans_dir, source_lang |-> c.source_lang,
     target_lang |-> c.target_lang, truecaser |-> o.truecaser,
     subtok_type |-> o.subtok_type, segmentation |-> o.segmentation] :
      c \in ConfiguredDirs,
      o \in { d \in [truecaser : BOOLEAN,
                     subtok_type : {"BPE", "SENTENCE_PIECE", "None"},
                     segmentation : {"whole", "chars"}] :
               d.subtok_type = "None" => d.segmentation = "whole" } }

NotRunPre == [ran |-> FALSE, tokenized |-> <<>>, casing |-> NoCasing,
              sentence_as_tokens |-> <<>>, encoder_arg |-> <<>>,
              bpe_tokens |-> <<>>, sentence |-> <<>>]
NotRunPost == [ran |-> FALSE, input |-> <<>>, casing |-> NoCasing,
               sentence_as_tokens |-> <<>>,
               detokenized |-> FALSE, detok_lang |-> "", sentence |-> <<>>]

\* /preprocess with the sentence
PreprocessSentence ==
  /\ pPc = "request"
  /\ pPre' = preprocess_sentence(pSentence, pDir)
  /\ pPc' = "preprocessed"
  /\ UNCHANGED <<pDir, pSentence, pPost, detokVars, initVars, tokVars>>

\* /postprocess with the sentence (the translation model's output)
PostprocessSentence ==
  /\ pPc = "request"
  /\ pPost' = postprocess_sentence(pSentence, pDir)
  /\ pPc' = "postprocessed"
  /\ UNCHANGED <<pDir, pSentence, pPre, detokVars, initVars, tokVars>>

\* /postprocess with what /preprocess returned
PostprocessPreprocessed ==
  /\ pPc = "preprocessed"
  /\ pPost' = postprocess_sentence(pPre.sentence, pDir)
  /\ pPc' = "roundtrip"
  /\ UNCHANGED <<pDir, pSentence, pPre, detokVars, initVars, tokVars>>

NextPipe == PreprocessSentence \/ PostprocessSentence \/ PostprocessPreprocessed

\* ------------------------------------------------------ specifications
\* A specification runs one machine; the others stay in one state.
NoDirection ==
  [trans_dir |-> en_de, source_lang |-> "en", target_lang |-> "de",
   truecaser |-> FALSE,
   subtok_type |-> "None", segmentation |-> "whole"]

\* The Catalan detokenizer is constructed; no request yet.
InitDetok ==
  /\ lang = "ca"
  /\ langWriter = 0
  /\ calls = [t \in Threads |-> IdleFrame(0)]
  /\ configuration = <<>>
  /\ initPc = "off"
  /\ idx = 1
  /\ supported_trans_dirs = <<>>
  /\ moses_punct_normalizer = EmptyDict
  /\ moses_tokenizer = EmptyDict
  /\ moses_detokenizer = EmptyDict
  /\ moses_truecaser = EmptyDict
  /\ bpe_encoder = EmptyDict
  /\ sentence_piece = EmptyDict
  /\ nextId = 1
  /\ allocLog = <<>>
  /\ bound = <<>>
  /\ lastReq = NoRequest
  /\ tokLang = "en"
  /\ tokText = <<>>
  /\ tokPc = "off"
  /\ tokResult = <<>>
  /\ pDir = NoDirection
  /\ pSentence = <<>>
  /\ pPc = "off"
  /\ pPre = NotRunPre
  /\ pPost = NotRunPost

\* The module is loaded, main() has read config.ini and calls init().
InitRegistry ==
  /\ lang = "ca"
  /\ langWriter = 0
  /\ calls = <<>>
  /\ configuration \in Configs
  /\ initPc = "init"
  /\ idx = 1
  /\ supported_trans_dirs = <<>>
  /\ moses_punct_normalizer = EmptyDict
  /\ moses_tokenizer = EmptyDict
  /\ moses_detokenizer = EmptyDict
  /\ moses_truecaser = EmptyDict
  /\ bpe_encoder = EmptyDict
  /\ sentence_piece = EmptyDict
  /\ nextId = 1
  /\ allocLog = <<>>
  /\ bound = <<>>
  /\ lastReq = NoRequest
  /\ tokLang = "en"
  /\ tokText = <<>>
  /\ tokPc = "off"
  /\ tokResult = <<>>
  /\ pDir = NoDirection
  /\ pSentence = <<>>
  /\ pPc = "off"
  /\ pPre = NotRunPre
  /\ pPost = NotRunPost

\* A tokenizer of either kind and a text.
InitTok ==
  /\ lang = "ca"
  /\ langWriter = 0
  /\ calls = <<>>
  /\ configuration = <<>>
  /\ initPc = "off"
  /\ idx = 1
  /\ supported_trans_dirs = <<>>
  /\ moses_punct_normalizer = EmptyDict
  /\ moses_tokenizer = EmptyDict
  /\ moses_detokenizer = EmptyDict
  /\ moses_truecaser = EmptyDict
  /\ bpe_encoder = EmptyDict
  /\ sentence_piece = EmptyDict
  /\ nextId = 1
  /\ allocLog = <<>>
  /\ bound = <<>>
  /\ lastReq = NoRequest
  /\ tokLang \in {"ca", "en"}
  /\ tokText \in SeqsUpTo(TokAlphabet, MaxTextLen)
  /\ tokPc = "call"
  /\ tokResult = <<>>
  /\ pDir = NoDirection
  /\ pSentence = <<>>
  /\ pPc = "off"
  /\ pPre = NotRunPre
  /\ pPost = NotRunPost

\* A direction as init() binds it and a sentence.
InitPipe ==
  /\ lang = "ca"
  /\ langWriter = 0
  /\ calls = <<>>
  /\ configuration = <<>>
  /\ initPc = "off"
  /\ idx = 1
  /\ supported_trans_dirs = <<>>
  /\ moses_punct_normalizer = EmptyDict
  /\ moses_tokenizer = EmptyDict
  /\ moses_detokenizer = EmptyDict
  /\ moses_truecaser = EmptyDict
  /\ bpe_encoder = EmptyDict
  /\ sentence_piece = EmptyDict
  /\ nextId = 1
  /\ allocLog = <<>>
  /\ bound = <<>>
  /\ lastReq = NoRequest
  /\ tokLang = "en"
  /\ tokText = <<>>
  /\ tokPc = "off"
  /\ tokResult = <<>>
  /\ pDir \in Directions
  /\ pSentence \in SeqsUpTo(PipeAlphabet, MaxSentenceLen)
  /\ pPc = "request"
  /\ pPre = NotRunPre
  /\ pPost = NotRunPost

SpecDetok == InitDetok /\ [][NextDetok]_vars

SpecInit == InitRegistry /\ [][NextRegistry]_vars

SpecTok == InitTok /\ [][NextTok]_vars

SpecPipe == InitPipe /\ [][NextPipe]_vars

\* ---------------------------------------------------------------- claims
\* No call has raised so far: every thread is in or before its first call and
\* no call carries a list that makes " ".join raise.
NoCallRaised ==
  \A u \in Threads : calls[u].ncalls <= 1 /\ ~JoinRaises(calls[u].input)

\* C1: concurrent detokenize calls on the shared Catalan detokenizer each
\* return what they return when run alone (French, split, Spanish), and no
\* call reads the language flag while it holds 'fr' or 'es' written by
\* another call.
C1_ConcurrentCallsAsAlone ==
  NoCallRaised =>
    \A t \in Threads :
      /\ ~calls[t].foreign
      /\ calls[t].pc = "done" => calls[t].result = CatalanAlone(calls[t].input)

\* C2: init fails for a direction configured with both a BPE codes path and a
\* piece-model path, or with neither; so once init has succeeded every
\* supported direction is a key of exactly one of bpe_encoder, sentence_piece.
C2_ExactlyOneSubtokenizer ==
  initPc = "serving" =>
    \A k \in 1..Len(supported_trans_dirs) :
      LET d == supported_trans_dirs[k] IN
      \/ d \in DOMAIN bpe_encoder /\ d \notin DOMAIN sentence_piece
      \/ d \notin DOMAIN bpe_encoder /\ d \in DOMAIN sentence_piece

RECURSIVE SplitOutMiddleDots(_)
\* The text with every middle dot that no lowercase letter follows set apart
\* by spaces, and every other middle dot left in its word.
SplitOutMiddleDots(text) ==
  IF text = <<>> THEN <<>>
  ELSE IF Head(text) = MIDDLE_DOT /\ ~(Len(text) >= 2 /\ text[2] \in Lowercase)
    THEN <<SP, MIDDLE_DOT, SP>> \o SplitOutMiddleDots(Tail(text))
  ELSE <<Head(text)>> \o SplitOutMiddleDots(Tail(text))

\* Letters and middle dots only, a letter on both sides of every middle dot.
DotsInsideWords(text) ==
  \A k \in 1..Len(text) :
    \/ IsAlpha(text[k])
    \/ /\ text[k] = MIDDLE_DOT
       /\ k > 1 /\ IsAlpha(text[k - 1])
       /\ k < Len(text) /\ IsAlpha(text[k + 1])

\* C3: the Catalan tokenizer keeps a middle dot that a lowercase letter follows
\* inside its word, and splits every other middle dot out as exactly one token
\* of its own, the text before and after it being separate tokens without the
\* dot ("a.B" with a middle dot gives the three tokens a, dot, B).  Stated for
\* texts whose middle dots all stand between two letters.
C3_MiddleDotSplitOut ==
  tokPc = "done" /\ tokLang = "ca" /\ DotsInsideWords(tokText) =>
    tokResult = SplitWs(SplitOutMiddleDots(tokText))

\* C4: when a pass of a Catalan detokenize call fails, the shared detokenizer's
\* language flag is 'ca' again.  Stated for the only call made so far, so that
\* no other call's assignment is in play.
C4_FailedCallRestoresFlag ==
  \A t \in Threads :
    (/\ calls[t].pc = "raised"
     /\ \A u \in Threads \ {t} : calls[u].pc = "idle" /\ calls[u].ncalls = 0)
    => lang = "ca"

\* C5: both endpoints look the request's direction up lower-cased: a request
\* whose lower-cased direction is registered is served with that direction's
\* resources, and a request is rejected only when its lower-cased direction
\* is not registered.
C5_LookupCaseNormalized ==
  lastReq.op # "none" =>
    IF InList(Lower(lastReq.dir), supported_trans_dirs)
      THEN lastReq.status = 200 /\ lastReq.used = Lower(lastReq.dir)
      ELSE lastReq.status = 400

LanguageClasses ==
  {"MosesPunctNormalizer", "MosesTokenizerExtended", "MosesDetokenizerExtended"}

Constructed(cls, key) ==
  {k \in 1..Len(allocLog) : allocLog[k].cls = cls /\ allocLog[k].key = key}

\* C6: during init the normalizer, tokenizer and detokenizer of a language are
\* constructed once, however many directions use the language; the instances
\* a direction found when it was initialized are the ones the registry holds
\* ever after, so directions that share a language share its instances.
C6_LanguageResourcesOnce ==
  /\ \A k \in 1..Len(allocLog) :
       allocLog[k].cls \in LanguageClasses =>
         Cardinality(Constructed(allocLog[k].cls, allocLog[k].key)) = 1
  /\ \A k \in 1..Len(bound) :
       \A l \in DOMAIN bound[k].ids :
         /\ l \in DOMAIN moses_punct_normalizer
         /\ l \in DOMAIN moses_tokenizer
         /\ l \in DOMAIN moses_detokenizer
         /\ bound[k].ids[l] = <<moses_punct_normalizer[l], moses_tokenizer[l],
                                moses_detokenizer[l]>>
  /\ \A j, k \in 1..Len(bound) :
       \A l \in DOMAIN bound[j].ids \cap DOMAIN bound[k].ids :
         bound[j].ids[l] = bound[k].ids[l]

\* C6 witness: init has finished over two different directions that share a
\* language.
C6_Witness ==
  /\ initPc = "serving"
  /\ Len(bound) = 2
  /\ bound[1].dir # bound[2].dir
  /\ DOMAIN bound[1].ids \cap DOMAIN bound[2].ids # {}

\* str.split() and ' '.join: whitespace normalization
WhitespaceNormalized(text) == JoinSp(SplitWs(text))

\* Lower-case ASCII letters and spaces only: no tag, no punctuation.
LowercaseWords(text) == \A k \in 1..Len(text) : text[k] \in Lowercase \cup {SP}

\* C7: for a direction without truecaser and a tag-free, lower-case ASCII
\* sentence s, postprocess(preprocess(s)) is s up to whitespace normalization.
\* Stated for the sentences of lower-case words, which no rule of punctuation
\* touches.
C7_RoundTrip ==
  pPc = "roundtrip" /\ ~pDir.truecaser /\ LowercaseWords(pSentence) =>
    WhitespaceNormalized(pPost.sentence) = WhitespaceNormalized(pSentence)

\* The removal loops that ran in the current state.
CasingStepsRun ==
  {c \in {pPre.casing, pPost.casing} : c.before # <<>>}

\* Every tag of the text is whole: a marker with an index after it.
WholeTags(text) ==
  \A k \in 1..Len(text) :
    /\ text[k] \in TagMarkers => k < Len(text) /\ text[k + 1] = TAG_INDEX
    /\ text[k] = TAG_INDEX => k > 1 /\ text[k - 1] \in TagMarkers

\* C8: the removal loop removes nothing when the first token has no tag
\* marker, and otherwise removes until the remaining list is empty or its
\* first token has no tag marker: no leading tag reaches the (de)truecaser.
\* Stated for sentences whose tags are whole.
C8_LeadingTagRunRemoved ==
  pDir.truecaser /\ WholeTags(pSentence) =>
    \A c \in CasingStepsRun :
      /\ ~HasTag(c.before[1]) => c.removed_tokens = <<>>
      /\ c.remaining = <<>> \/ ~HasTag(c.remaining[1])

\* C9: for a BPE direction the byte pair encoder is handed the tokens of word
\* tokenization (truecased when a truecaser is configured) joined with single
\* spaces, with or without a truecaser.
C9_EncoderGetsTokenized ==
  pPre.ran /\ pDir.subtok_type = "BPE" =>
    pPre.encoder_arg = JoinSp(pPre.sentence_as_tokens)

\* The step's result is the removed prefix of the tokens it started from, then
\* the stage's result for the space-joined rest.
PrefixThenStage(c, result, stage) ==
  LET n == Len(c.removed_tokens) IN
  /\ n <= Len(c.before)
  /\ c.removed_tokens = SubSeq(c.before, 1, n)
  /\ c.stage_arg = JoinSp(SubSeq(c.before, n + 1, Len(c.before)))
  /\ result = SubSeq(c.before, 1, n)
              \o (IF stage = "truecase" THEN Truecase(c.stage_arg)
                  ELSE Detruecase(c.stage_arg))

\* C10: in the truecasing step of preprocess and the detruecasing step of
\* postprocess the removed leading tokens are not passed to the stage and come
\* back unchanged: the step's token list is the removed prefix, in order,
\* followed by the stage's output for the space-joined remaining tokens.
C10_PrefixSurvivesCasing ==
  pDir.truecaser =>
    /\ pPre.ran => PrefixThenStage(pPre.casing, pPre.sentence_as_tokens, "truecase")
    /\ pPost.ran => PrefixThenStage(pPost.casing, pPost.sentence_as_tokens, "detruecase")

\* C10 witness: preprocess removed a leading tag and the truecaser changed a
\* token behind it.
C10_Witness ==
  /\ pPc = "preprocessed"
  /\ pDir.truecaser
  /\ pPre.casing.removed_tokens # <<>>
  /\ pPre.casing.tokens # pPre.casing.before

\* C11: postprocess calls a detokenizer exactly for a direction on the BPE
\* path, and then the one of the direction's target language; for a
\* SentencePiece direction the result is the space-joined tokens after
\* detruecasing, and without a truecaser the input string itself.
C11_DetokenizeOnlyForBpe ==
  pPost.ran =>
    /\ pPost.detokenized <=> pDir.subtok_type = "BPE"
    /\ pPost.detokenized => pPost.detok_lang = pDir.target_lang
    /\ pDir.subtok_type = "SENTENCE_PIECE" =>
          pPost.sentence = IF pDir.truecaser THEN JoinSp(pPost.casing.tokens)
                           ELSE pPost.input

\* C11 witness: a SentencePiece direction without truecaser returned an input
\* of several tokens that the target language's detokenizer would have changed.
C11_Witness ==
  /\ pPost.ran
  /\ pDir.subtok_type = "SENTENCE_PIECE"
  /\ ~pDir.truecaser
  /\ Len(SplitWs(pPost.input)) >= 2
  /\ pPost.sentence = pPost.input
  /\ MosesDetok(pDir.target_lang, SplitWs(pPost.input)) # pPost.input

\* A token that is one tag and nothing else: a marker and its content.
IsTagToken(token) ==
  Len(token) = 2 /\ token[1] \in TagMarkers /\ token[2] \notin TagMarkers \cup {SP}

\* C12: after the merge loop of the BPE path, for a sentence whose tags are
\* whole, the output has single spaces between its tokens and none at its
\* ends, and every token of it that carries a tag marker is that tag alone:
\* each tag is exactly one whitespace-delimited token.
C12_MergedTagsAreSingleTokens ==
  pPre.ran /\ pDir.subtok_type = "BPE" /\ WholeTags(pSentence) =>
    LET tokens == SplitWs(pPre.sentence) IN
    /\ pPre.sentence = JoinSp(tokens)
    /\ \A k \in 1..Len(tokens) : HasTag(tokens[k]) => IsTagToken(tokens[k])

=============================================================================
